---- MODULE Spec2Model ----
(***************************************************************************)
(* A model of xnacly/go-iso8601-duration: the parser From (a finite-state  *)
(* machine over the runes of its input), the serializer Duration.String    *)
(* and the helpers they call, translated from src/duration.go and          *)
(* src/error.go.                                                           *)
(*                                                                         *)
(* Text is a sequence of runes; a rune is a one-character string.  The     *)
(* reader of From never looks ahead, so the model lets the input grow by   *)
(* the rune the reader delivers at each iteration of From's loop: `s' is   *)
(* the part of the input read so far, and the end of the input is chosen   *)
(* when the reader reports io.EOF.                                         *)
(*                                                                         *)
(* int64 is modelled with IntBits bits instead of 64 (MaxInt64 is          *)
(* 2^(IntBits-1)-1), so that the overflow boundary of the digit            *)
(* accumulator is within reach of short inputs.                            *)
(***************************************************************************)
EXTENDS Integers, Sequences, FiniteSets, TLC

\* ------------------------------------------------------------------ bounds

\* Width of the model's int64.
IntBits == 5

\* Longest input From is given, in runes.
MaxLen == 7

\* The longest input of the specification of long runs of digits, longer
\* than the 255 that a uint8 column counts.
MaxRun == 258

\* ------------------------------------------------------------- constants

MaxInt64 == 2 ^ (IntBits - 1) - 1

\* `var col uint8`: the column counter counts modulo 2^8.
Uint8Mod == 256

defaultDesignators == {"Y", "M", "W", "D"}

timeDesignators == {"M", "H", "S"}

stateStart == "Start"

stateP == "P"

stateNumber == "Number"

stateDesignator == "Designator"

stateT == "T"

stateTNumber == "TNumber"

stateTDesignator == "TDesignator"

stateFin == "Fin"

\* The error values of error.go, and the one duration.go uses beside them.
UnexpectedEof == "UnexpectedEof"

UnexpectedReaderError == "UnexpectedReaderError"

UnexpectedNonAsciiRune == "UnexpectedNonAsciiRune"

MissingDesignator == "MissingDesignator"

UnknownDesignator == "UnknownDesignator"

DuplicateDesignator == "DuplicateDesignator"

MissingNumber == "MissingNumber"

MissingPDesignatorAtStart == "MissingPDesignatorAtStart"

DesignatorNumberTooLarge == "DesignatorNumberTooLarge"

\* ----------------------------------------------------------------- runes

\* unicode.IsDigit on a single-byte rune: the ASCII digits.
AsciiDigits == {"0", "1", "2", "3", "4", "5", "6", "7", "8", "9"}

IsDigit(b) == b \in AsciiDigits

\* The digits the inputs are written with: enough to spell MaxInt64 and
\* MaxInt64 + 1 at the model's width, and leading zeros.
InputDigits == {"0", "1", "5", "6"}

\* Single-byte runes of the inputs: signs, P, T, every designator, digits,
\* and a rune that is none of these.
AsciiRunes ==
    {"-", "+", "P", "T", "Y", "M", "W", "D", "H", "S", "A"} \cup InputDigits

\* A rune whose UTF-8 encoding is longer than one byte, by its code point.
MultiByteRunes == {"U+00E8"}

\* The size ReadRune reports for a rune.
RuneSize(b) == IF b \in MultiByteRunes THEN 2 ELSE 1

\* int64(n - '0') for a digit rune n.
DigitValue(n) ==
    CASE n = "0" -> 0 [] n = "1" -> 1 [] n = "2" -> 2 [] n = "3" -> 3
      [] n = "4" -> 4 [] n = "5" -> 5 [] n = "6" -> 6 [] n = "7" -> 7
      [] n = "8" -> 8 [] n = "9" -> 9

\* The digit rune of 0..9, as strconv.FormatInt writes it.
DigitRune(v) ==
    CASE v = 0 -> "0" [] v = 1 -> "1" [] v = 2 -> "2" [] v = 3 -> "3"
      [] v = 4 -> "4" [] v = 5 -> "5" [] v = 6 -> "6" [] v = 7 -> "7"
      [] v = 8 -> "8" [] v = 9 -> "9"

\* -------------------------------------------------------------- integers

\* Go's int64 arithmetic: the result modulo 2^IntBits, in two's complement.
WrapInt64(x) ==
    ((x + 2 ^ (IntBits - 1)) % (2 ^ IntBits)) - 2 ^ (IntBits - 1)

\* Go's integer division, which truncates toward zero.
GoDiv(a, b) == IF a >= 0 THEN a \div b ELSE -((-a) \div b)

\* ---------------------------------------------------------------- errors

NilError == [type |-> "nil"]

\* wrapErr: an ISO8601DurationError carrying the kind and the column.
wrapErr(inner, column) ==
    [type |-> "ISO8601DurationError", Inner |-> inner, Column |-> column]

\* An error value returned as it is, with no ISO8601DurationError around it.
BareError(inner) == [type |-> "errorString", Inner |-> inner]

\* -------------------------------------------------------------- Duration

\* Duration{}: the zero value.
ZeroDuration ==
    [hasNegativeSign |-> FALSE, year |-> 0, month |-> 0, week |-> 0,
     day |-> 0, hour |-> 0, minute |-> 0, second |-> 0]

\* The values the fields of a Duration literal are drawn from: int64 fields
\* hold negative values as well (FromDuration of a negative elapsed time
\* produces them).
ComponentValues == {-1, 0, 1, 10, MaxInt64}

DurationValues ==
    [hasNegativeSign : BOOLEAN, year : ComponentValues, month : ComponentValues,
     week : ComponentValues, day : ComponentValues, hour : ComponentValues,
     minute : ComponentValues, second : ComponentValues]

\* ----------------------------------------------------- numBufferToNumber

RECURSIVE numLoopUncheckedDigit(_, _, _)
numLoopUncheckedDigit(buf, k, i) ==
    IF k > Len(buf) THEN [num |-> i, err |-> NilError]
    ELSE LET digit == DigitValue(buf[k])
         IN  IF i > GoDiv(MaxInt64, 10)
             THEN [num |-> 0, err |-> BareError(DesignatorNumberTooLarge)]
             ELSE numLoopUncheckedDigit(buf, k + 1, WrapInt64((i * 10) + digit))

\* numBufferToNumber with the digit left out of the overflow check.
numBufferToNumberUncheckedDigit(buf) == numLoopUncheckedDigit(buf, 1, 0)

\* The loop of numBufferToNumber from the k-th byte of buf on, i accumulated.
RECURSIVE numLoop(_, _, _)
numLoop(buf, k, i) ==
    IF k > Len(buf) THEN [num |-> i, err |-> NilError]
    ELSE LET digit == DigitValue(buf[k])
         IN  IF i > GoDiv(MaxInt64 - digit, 10)
             THEN [num |-> 0, err |-> BareError(DesignatorNumberTooLarge)]
             ELSE numLoop(buf, k + 1, WrapInt64((i * 10) + digit))

numBufferToNumber(buf) == numLoop(buf, 1, 0)

\* -------------------------------------------------------------- From

\* What ReadRune delivers at the end of the input.
EOF == "EOF"

\* The locals of From when its loop is entered; ret is what From returns
\* (ret.done: it has returned; the Duration returned is `duration').
InitLocals ==
    [curState |-> stateStart, col |-> 0, numBuf |-> <<>>,
     duration |-> ZeroDuration, ret |-> [done |-> FALSE, err |-> NilError]]

\* return duration, err
Return(p, err) == [p EXCEPT !.ret = [done |-> TRUE, err |-> err]]

\* col++ on a uint8.
IncCol(col) == (col + 1) % Uint8Mod

\* case stateStart reporting the column of the rune before the one read.
CaseStartColumnOfPrevious(p, b) ==
    CASE b = "-" ->
           [p EXCEPT !.duration.hasNegativeSign = TRUE, !.curState = stateStart]
      [] b = "+" -> [p EXCEPT !.curState = stateStart]
      [] b = "P" -> [p EXCEPT !.curState = stateP]
      [] OTHER -> Return(p, wrapErr(MissingPDesignatorAtStart, p.col - 1))

\* case stateStart with '+' clearing the sign that a '-' before it has set.
CaseStartPlusClears(p, b) ==
    CASE b = "-" ->
           [p EXCEPT !.duration.hasNegativeSign = TRUE, !.curState = stateStart]
      [] b = "+" ->
           [p EXCEPT !.duration.hasNegativeSign = FALSE, !.curState = stateStart]
      [] b = "P" -> [p EXCEPT !.curState = stateP]
      [] OTHER -> Return(p, wrapErr(MissingPDesignatorAtStart, p.col))

\* case stateStart
CaseStart(p, b) ==
    CASE b = "-" ->
           [p EXCEPT !.duration.hasNegativeSign = TRUE, !.curState = stateStart]
      [] b = "+" -> [p EXCEPT !.curState = stateStart]
      [] b = "P" -> [p EXCEPT !.curState = stateP]
      [] OTHER -> Return(p, wrapErr(MissingPDesignatorAtStart, p.col))

\* case stateP, stateDesignator
CasePDesignator(p, b) ==
    IF b = "T" THEN [p EXCEPT !.curState = stateT]
    ELSE IF IsDigit(b)
    THEN [p EXCEPT !.numBuf = Append(p.numBuf, b), !.curState = stateNumber]
    ELSE Return(p, wrapErr(MissingNumber, p.col))

\* The component a designator names, before and after the T.
DateField(b) ==
    CASE b = "Y" -> "year" [] b = "M" -> "month" [] b = "W" -> "week"
      [] b = "D" -> "day"

TimeField(b) ==
    CASE b = "H" -> "hour" [] b = "M" -> "minute" [] b = "S" -> "second"

\* The closing of a number by a designator of `field': the inner switch of
\* case stateNumber and of case stateTNumber.
CloseNumber(p, field, next) ==
    IF Len(p.numBuf) = 0 THEN Return(p, wrapErr(MissingNumber, p.col))
    ELSE LET r == numBufferToNumber(p.numBuf)
         IN  IF r.err # NilError THEN Return(p, r.err)
             ELSE IF p.duration[field] # 0
             THEN Return(p, wrapErr(DuplicateDesignator, p.col))
             ELSE [p EXCEPT !.duration[field] = r.num, !.numBuf = <<>>,
                            !.curState = next]

\* case stateNumber with the rule of earlier revisions that a week stands
\* alone: no date designator may close a number once a week is set.
CaseNumberWeekAlone(p, b) ==
    IF IsDigit(b)
    THEN [p EXCEPT !.numBuf = Append(p.numBuf, b), !.curState = stateNumber]
    ELSE IF b \in defaultDesignators
    THEN IF p.duration.week # 0
         THEN Return(p, wrapErr(DuplicateDesignator, p.col))
         ELSE CloseNumber(p, DateField(b), stateDesignator)
    ELSE Return(p, wrapErr(UnknownDesignator, p.col))

\* case stateNumber with the number converted as each digit is appended, so
\* that a run above MaxInt64 is refused at its digit.
CaseNumberEagerOverflow(p, b) ==
    IF IsDigit(b)
    THEN LET r == numBufferToNumber(Append(p.numBuf, b))
         IN  IF r.err # NilError THEN Return(p, r.err)
             ELSE [p EXCEPT !.numBuf = Append(p.numBuf, b),
                            !.curState = stateNumber]
    ELSE IF b \in defaultDesignators
    THEN CloseNumber(p, DateField(b), stateDesignator)
    ELSE Return(p, wrapErr(UnknownDesignator, p.col))

\* case stateNumber
CaseNumber(p, b) ==
    IF IsDigit(b)
    THEN [p EXCEPT !.numBuf = Append(p.numBuf, b), !.curState = stateNumber]
    ELSE IF b \in defaultDesignators
    THEN CloseNumber(p, DateField(b), stateDesignator)
    ELSE Return(p, wrapErr(UnknownDesignator, p.col))

\* case stateT, stateTDesignator
CaseTTDesignator(p, b) ==
    IF IsDigit(b)
    THEN [p EXCEPT !.numBuf = Append(p.numBuf, b), !.curState = stateTNumber]
    ELSE Return(p, wrapErr(MissingNumber, p.col))

\* case stateTNumber with M closing a month, as it does before the T.
CaseTNumberMonth(p, b) ==
    IF IsDigit(b)
    THEN [p EXCEPT !.numBuf = Append(p.numBuf, b), !.curState = stateTNumber]
    ELSE IF b \in timeDesignators
    THEN CloseNumber(p, IF b = "M" THEN "month" ELSE TimeField(b),
                     stateTDesignator)
    ELSE Return(p, wrapErr(UnknownDesignator, p.col))

\* case stateTNumber returning to stateDesignator, the state after a date
\* designator, when H, M or S closes a number.
CaseTNumberBackToDate(p, b) ==
    IF IsDigit(b)
    THEN [p EXCEPT !.numBuf = Append(p.numBuf, b), !.curState = stateTNumber]
    ELSE IF b \in timeDesignators
    THEN CloseNumber(p, TimeField(b), stateDesignator)
    ELSE Return(p, wrapErr(UnknownDesignator, p.col))

\* case stateTNumber
CaseTNumber(p, b) ==
    IF IsDigit(b)
    THEN [p EXCEPT !.numBuf = Append(p.numBuf, b), !.curState = stateTNumber]
    ELSE IF b \in timeDesignators
    THEN CloseNumber(p, TimeField(b), stateTDesignator)
    ELSE Return(p, wrapErr(UnknownDesignator, p.col))

\* switch curState with a case stateFin that does not return: the loop goes
\* on to the next ReadRune.
SwitchFinContinues(p, b) ==
    CASE p.curState = stateStart -> CaseStart(p, b)
      [] p.curState \in {stateP, stateDesignator} -> CasePDesignator(p, b)
      [] p.curState = stateNumber -> CaseNumber(p, b)
      [] p.curState \in {stateT, stateTDesignator} -> CaseTTDesignator(p, b)
      [] p.curState = stateTNumber -> CaseTNumber(p, b)
      [] p.curState = stateFin -> p

\* switch curState
Switch(p, b) ==
    CASE p.curState = stateStart -> CaseStart(p, b)
      [] p.curState \in {stateP, stateDesignator} -> CasePDesignator(p, b)
      [] p.curState = stateNumber -> CaseNumber(p, b)
      [] p.curState \in {stateT, stateTDesignator} -> CaseTTDesignator(p, b)
      [] p.curState = stateTNumber -> CaseTNumber(p, b)
      [] p.curState = stateFin -> Return(p, NilError)

\* AtEOF with the end of the input an error in stateT too, as it is in
\* stateP.
AtEOFAfterT(p) ==
    IF p.curState \in {stateP, stateT}
    THEN Return(p, wrapErr(UnexpectedEof, p.col))
    ELSE IF p.curState \in {stateNumber, stateTNumber}
    THEN Return(p, wrapErr(MissingDesignator, p.col))
    ELSE Switch([p EXCEPT !.curState = stateFin, !.col = IncCol(p.col)], EOF)

\* The iteration of From's loop in which ReadRune reports io.EOF (a
\* strings.Reader reports no other error): size is 0, and unless the state
\* is an error the state becomes stateFin, whose case returns.
AtEOF(p) ==
    IF p.curState = stateP THEN Return(p, wrapErr(UnexpectedEof, p.col))
    ELSE IF p.curState \in {stateNumber, stateTNumber}
    THEN Return(p, wrapErr(MissingDesignator, p.col))
    ELSE Switch([p EXCEPT !.curState = stateFin, !.col = IncCol(p.col)], EOF)

\* AtRune with col++ after the switch instead of before it.
AtRuneColumnAfterSwitch(p, b) ==
    IF RuneSize(b) > 1 THEN Return(p, wrapErr(UnexpectedNonAsciiRune, p.col))
    ELSE LET q == Switch(p, b)
         IN  IF q.ret.done THEN q ELSE [q EXCEPT !.col = IncCol(q.col)]

\* The iteration of From's loop in which ReadRune delivers the rune b.
AtRune(p, b) ==
    IF RuneSize(b) > 1 THEN Return(p, wrapErr(UnexpectedNonAsciiRune, p.col))
    ELSE Switch([p EXCEPT !.col = IncCol(p.col)], b)

\* One iteration of From's loop.
Iteration(p, r) == IF r = EOF THEN AtEOF(p) ELSE AtRune(p, r)

\* The loop of From from the k-th rune of str on.
RECURSIVE RunLoop(_, _, _)
RunLoop(p, str, k) ==
    IF p.ret.done THEN p
    ELSE IF k > Len(str) THEN Iteration(p, EOF)
    ELSE RunLoop(Iteration(p, str[k]), str, k + 1)

\* From(s) as a function of the whole text.
From(str) ==
    IF Len(str) = 0
    THEN Return(InitLocals, wrapErr(UnexpectedEof, 0))
    ELSE RunLoop(InitLocals, str, 1)

\* ------------------------------------------------------- Duration.String

\* strconv.FormatInt(v, 10)
RECURSIVE FormatInt(_)
FormatInt(v) ==
    IF v < 0 THEN <<"-">> \o FormatInt(-v)
    ELSE IF v < 10 THEN <<DigitRune(v)>>
    ELSE Append(FormatInt(v \div 10), DigitRune(v % 10))

\* WriteComponent with >= for >: a zero component is written too.
WriteComponentZeroToo(v, c) == IF v >= 0 THEN FormatInt(v) \o <<c>> ELSE <<>>

\* if v > 0 { b.WriteString(strconv.FormatInt(v, 10)); b.WriteByte(c) }
WriteComponent(v, c) == IF v > 0 THEN FormatInt(v) \o <<c>> ELSE <<>>

\* String with the T separator written only when the hour is set.
StringTOnlyForHours(i) ==
    LET head == (IF i.hasNegativeSign THEN <<"-">> ELSE <<>>) \o <<"P">>
    IN  IF /\ i.year = 0 /\ i.month = 0 /\ i.week = 0 /\ i.day = 0
           /\ i.hour = 0 /\ i.minute = 0 /\ i.second = 0
        THEN head \o <<"0", "D">>
        ELSE head
             \o WriteComponent(i.year, "Y") \o WriteComponent(i.month, "M")
             \o WriteComponent(i.week, "W") \o WriteComponent(i.day, "D")
             \o (IF i.hour > 0 THEN <<"T">> ELSE <<>>)
             \o WriteComponent(i.hour, "H")
             \o WriteComponent(i.minute, "M")
             \o WriteComponent(i.second, "S")

\* String with the zero value written as P0D before the sign is looked at.
StringZeroUnsigned(i) ==
    IF /\ i.year = 0 /\ i.month = 0 /\ i.week = 0 /\ i.day = 0
       /\ i.hour = 0 /\ i.minute = 0 /\ i.second = 0
    THEN <<"P", "0", "D">>
    ELSE (IF i.hasNegativeSign THEN <<"-">> ELSE <<>>) \o <<"P">>
         \o WriteComponent(i.year, "Y") \o WriteComponent(i.month, "M")
         \o WriteComponent(i.week, "W") \o WriteComponent(i.day, "D")
         \o (IF i.hour > 0 \/ i.minute > 0 \/ i.second > 0
             THEN <<"T">> \o WriteComponent(i.hour, "H")
                  \o WriteComponent(i.minute, "M")
                  \o WriteComponent(i.second, "S")
             ELSE <<>>)

\* func (i Duration) String() string
String(i) ==
    LET head == (IF i.hasNegativeSign THEN <<"-">> ELSE <<>>) \o <<"P">>
    IN  IF /\ i.year = 0 /\ i.month = 0 /\ i.week = 0 /\ i.day = 0
           /\ i.hour = 0 /\ i.minute = 0 /\ i.second = 0
        THEN head \o <<"0", "D">>
        ELSE head
             \o WriteComponent(i.year, "Y") \o WriteComponent(i.month, "M")
             \o WriteComponent(i.week, "W") \o WriteComponent(i.day, "D")
             \o (IF i.hour > 0 \/ i.minute > 0 \/ i.second > 0
                 THEN <<"T">> \o WriteComponent(i.hour, "H")
                      \o WriteComponent(i.minute, "M")
                      \o WriteComponent(i.second, "S")
                 ELSE <<>>)

\* ------------------------------------------- int64 and float64 at width
\* The elapsed-time conversions compute with nanosecond counts of the order
\* of 2^63 and with float64 products; both are beyond the integers of the
\* model checker, so they are computed on numbers written in limbs of 15
\* bits (least significant first, no leading zero limb; <<>> is 0).

\* F applied to the value of e (of e1 and e2), each evaluated once.
With(e, F(_)) == CHOOSE r \in {F(v) : v \in {e}} : TRUE

With2(e1, e2, F(_, _)) == CHOOSE r \in {F(v, w) : v \in {e1}, w \in {e2}} : TRUE

Base == 2 ^ 15

RECURSIVE NatNorm(_)
NatNorm(a) ==
    IF a # <<>> /\ a[Len(a)] = 0 THEN NatNorm(SubSeq(a, 1, Len(a) - 1)) ELSE a

RECURSIVE NatOf(_)
NatOf(n) == IF n = 0 THEN <<>> ELSE <<n % Base>> \o NatOf(n \div Base)

Limb(a, i) == IF i <= Len(a) THEN a[i] ELSE 0

RECURSIVE NatAddFrom(_, _, _, _)
NatAddFrom(a, b, i, c) ==
    IF i > Len(a) /\ i > Len(b) THEN NatOf(c)
    ELSE With(Limb(a, i) + Limb(b, i) + c, LAMBDA t :
             <<t % Base>> \o NatAddFrom(a, b, i + 1, t \div Base))

NatAdd(a, b) == With2(a, b, LAMBDA x, y : NatAddFrom(x, y, 1, 0))

\* a - b for a >= b.
RECURSIVE NatSubFrom(_, _, _, _)
NatSubFrom(a, b, i, c) ==
    IF i > Len(a) THEN <<>>
    ELSE With(Limb(a, i) - Limb(b, i) - c, LAMBDA t :
             IF t < 0 THEN <<t + Base>> \o NatSubFrom(a, b, i + 1, 1)
             ELSE <<t>> \o NatSubFrom(a, b, i + 1, 0))

NatSub(a, b) == With2(a, b, LAMBDA x, y : NatNorm(NatSubFrom(x, y, 1, 0)))

\* -1, 0 or 1 as a < b, a = b or a > b.
RECURSIVE NatCmpFrom(_, _, _)
NatCmpFrom(a, b, i) ==
    IF i = 0 THEN 0
    ELSE IF a[i] < b[i] THEN -1
    ELSE IF a[i] > b[i] THEN 1
    ELSE NatCmpFrom(a, b, i - 1)

NatCmp(a, b) ==
    With2(a, b, LAMBDA x, y :
        IF Len(x) < Len(y) THEN -1
        ELSE IF Len(x) > Len(y) THEN 1
        ELSE NatCmpFrom(x, y, Len(x)))

\* a * k for a limb k.
RECURSIVE NatMulLimbFrom(_, _, _, _)
NatMulLimbFrom(a, k, i, c) ==
    IF i > Len(a) THEN NatOf(c)
    ELSE With(a[i] * k + c, LAMBDA t :
             <<t % Base>> \o NatMulLimbFrom(a, k, i + 1, t \div Base))

NatMulLimb(a, k) ==
    With2(a, k, LAMBDA x, y : NatNorm(NatMulLimbFrom(x, y, 1, 0)))

\* a * Base^n
NatShiftLimbs(a, n) ==
    With(a, LAMBDA x : IF x = <<>> THEN <<>> ELSE [i \in 1..n |-> 0] \o x)

RECURSIVE NatMulFrom(_, _, _)
NatMulFrom(a, b, i) ==
    IF i > Len(b) THEN <<>>
    ELSE NatAdd(NatShiftLimbs(NatMulLimb(a, b[i]), i - 1),
                NatMulFrom(a, b, i + 1))

NatMul(a, b) == With2(a, b, LAMBDA x, y : NatMulFrom(x, y, 1))

\* The largest limb q in lo..hi with b * q <= r, given b * lo <= r.
RECURSIVE QuotientLimb(_, _, _, _)
QuotientLimb(r, b, lo, hi) ==
    IF lo = hi THEN lo
    ELSE With((lo + hi + 1) \div 2, LAMBDA mid :
             IF NatCmp(NatMulLimb(b, mid), r) <= 0
             THEN QuotientLimb(r, b, mid, hi)
             ELSE QuotientLimb(r, b, lo, mid - 1))

\* Quotient and remainder of the limbs i.. of a by b, b > 0.
RECURSIVE NatDivModFrom(_, _, _)
NatDivModFrom(a, b, i) ==
    IF i > Len(a) THEN [q |-> <<>>, r |-> <<>>]
    ELSE With(NatDivModFrom(a, b, i + 1), LAMBDA up :
         With(NatNorm(<<a[i]>> \o up.r), LAMBDA r :
         With(QuotientLimb(r, b, 0, Base - 1), LAMBDA d :
             [q |-> <<d>> \o up.q, r |-> NatSub(r, NatMulLimb(b, d))])))

NatDivMod(a, b) ==
    With2(a, b, LAMBDA x, y :
        With(NatDivModFrom(x, y, 1), LAMBDA dm :
            [q |-> NatNorm(dm.q), r |-> dm.r]))

\* 2^k
NatPow2(k) == With(k, LAMBDA n : NatShiftLimbs(<<2 ^ (n % 15)>>, n \div 15))

RECURSIVE LimbBits(_)
LimbBits(n) == IF n = 0 THEN 0 ELSE 1 + LimbBits(n \div 2)

\* The number of bits of a.
NatBits(a) ==
    With(a, LAMBDA x :
        IF x = <<>> THEN 0 ELSE 15 * (Len(x) - 1) + LimbBits(x[Len(x)]))

\* An integer: its sign and its magnitude; 0 is not negative.
BigInt(neg, mag) == With(mag, LAMBDA m : [neg |-> neg /\ m # <<>>, mag |-> m])

\* The integer n of the model checker.
IntOf(n) == IF n < 0 THEN BigInt(TRUE, NatOf(-n)) ELSE BigInt(FALSE, NatOf(n))

IntNeg(x) == With(x, LAMBDA v : BigInt(~v.neg, v.mag))

IntAdd(x, y) ==
    With2(x, y, LAMBDA v, w :
        IF v.neg = w.neg THEN BigInt(v.neg, NatAdd(v.mag, w.mag))
        ELSE IF NatCmp(v.mag, w.mag) >= 0
        THEN BigInt(v.neg, NatSub(v.mag, w.mag))
        ELSE BigInt(w.neg, NatSub(w.mag, v.mag)))

IntSub(x, y) == IntAdd(x, IntNeg(y))

IntMul(x, y) ==
    With2(x, y, LAMBDA v, w : BigInt(v.neg # w.neg, NatMul(v.mag, w.mag)))

\* Go's x / y on integers: the quotient truncated toward zero.
IntQuo(x, y) ==
    With2(x, y, LAMBDA v, w : BigInt(v.neg # w.neg, NatDivMod(v.mag, w.mag).q))

\* The int64 an integer wraps to: its value modulo 2^64, in two's complement.
Int64(x) ==
    With(x, LAMBDA v :
        IF NatBits(v.mag) < 64 THEN v
        ELSE With(NatDivMod(v.mag, NatPow2(64)).r, LAMBDA m :
             With(IF v.neg /\ m # <<>> THEN NatSub(NatPow2(64), m) ELSE m,
                  LAMBDA u :
                      IF NatCmp(u, NatPow2(63)) >= 0
                      THEN BigInt(TRUE, NatSub(NatPow2(64), u))
                      ELSE BigInt(FALSE, u))))

\* A float64: (-1)^neg * m * 2^e with m < 2^53 (or m = 2^53 after a carry).
\* The nearest float64, ties to even, of (-1)^neg * (m + f) * 2^e, where
\* 0 <= f < 1 and f > 0 iff `inexact'; an inexact m has more than 54 bits.
FloatRound(neg, m, e, inexact) ==
    With2(m, NatBits(m) - 53, LAMBDA x, k :
        IF k <= 0 THEN [neg |-> neg, m |-> x, e |-> e]
        ELSE With(NatDivMod(x, NatPow2(k)), LAMBDA dm :
             With(NatCmp(dm.r, NatPow2(k - 1)), LAMBDA c :
                 [neg |-> neg,
                  m |-> IF c > 0 \/ (c = 0 /\ (inexact \/ dm.q[1] % 2 = 1))
                        THEN NatAdd(dm.q, <<1>>) ELSE dm.q,
                  e |-> e + k])))

\* float64(x) for an integer x.
FloatOf(x) == With(x, LAMBDA v : FloatRound(v.neg, v.mag, 0, FALSE))

\* The float64 nearest to the fraction n / d of natural numbers, d > 0,
\* times 2^e.
FloatOfRatio(neg, n, d, e) ==
    With2(n, d, LAMBDA x, y :
        IF x = <<>> THEN [neg |-> FALSE, m |-> <<>>, e |-> 0]
        ELSE With(IF NatBits(x) >= NatBits(y) + 55 THEN 0
                  ELSE NatBits(y) + 55 - NatBits(x), LAMBDA sh :
             With(NatDivMod(NatMul(x, NatPow2(sh)), y), LAMBDA dm :
                 FloatRound(neg, dm.q, e - sh, dm.r # <<>>))))

\* x * y and x / y on float64.
FloatMul(x, y) ==
    With2(x, y, LAMBDA v, w :
        FloatRound(v.neg # w.neg, NatMul(v.m, w.m), v.e + w.e, FALSE))

FloatDiv(x, y) ==
    With2(x, y, LAMBDA v, w : FloatOfRatio(v.neg # w.neg, v.m, w.m, v.e - w.e))

\* int64(x) for a float64 x within the range of int64: truncation toward
\* zero. (Out of that range Go leaves the result to the implementation; the
\* values the model converts are within it.)
FloatToInt64(x) ==
    With(x, LAMBDA v :
        IF v.e >= 0 THEN BigInt(v.neg, NatMul(v.m, NatPow2(v.e)))
        ELSE BigInt(v.neg, NatDivMod(v.m, NatPow2(-v.e)).q))

\* ------------------------------------------------ elapsed-time conversions

\* int64(time.Second): a time.Duration counts nanoseconds.
nsPerSecond == IntOf(10 ^ 9)

nsPerMinute == IntMul(IntOf(60), nsPerSecond)

nsPerHour == IntMul(IntOf(60), nsPerMinute)

nsPerDay == IntMul(IntOf(24), nsPerHour)

nsPerWeek == IntMul(IntOf(7), nsPerDay)

\* The untyped constant 365.2425 as the float64 it becomes in a product with
\* a float64 variable.
daysPerYear == FloatOfRatio(FALSE, NatOf(3652425), NatOf(10 ^ 4), 0)

\* 30.436875 likewise.
daysPerMonth == FloatOfRatio(FALSE, NatOf(30436875), NatOf(10 ^ 6), 0)

\* The constant expressions float64(nsPerDay) * daysPerYear and
\* float64(nsPerDay) * daysPerMonth: evaluated exactly, then made float64.
nsPerYear ==
    FloatOfRatio(FALSE, NatMul(nsPerDay.mag, NatOf(3652425)), NatOf(10 ^ 4), 0)

nsPerMonth ==
    FloatOfRatio(FALSE, NatMul(nsPerDay.mag, NatOf(30436875)), NatOf(10 ^ 6), 0)

\* A Duration whose components are int64 values at their width.
WideDuration(sign, y, mo, w, d, h, mi, sec) ==
    [hasNegativeSign |-> sign, year |-> y, month |-> mo, week |-> w,
     day |-> d, hour |-> h, minute |-> mi, second |-> sec]

\* Duration{}
WideZero ==
    WideDuration(FALSE, IntOf(0), IntOf(0), IntOf(0), IntOf(0), IntOf(0),
                 IntOf(0), IntOf(0))

\* int64(float64(v) * daysPerYear * float64(nsPerDay))
YearsToNs(v) ==
    FloatToInt64(FloatMul(FloatMul(FloatOf(v), daysPerYear), FloatOf(nsPerDay)))

\* int64(float64(v) * daysPerMonth * float64(nsPerDay))
MonthsToNs(v) ==
    FloatToInt64(FloatMul(FloatMul(FloatOf(v), daysPerMonth), FloatOf(nsPerDay)))

\* int64(float64(v) * float64(unit))
UnitsToNs(v, unit) == FloatToInt64(FloatMul(FloatOf(v), FloatOf(unit)))

\* One step of FromDuration for a component taken by integer division:
\* v := ns / unit; ns -= v * unit. p holds ns and the Duration so far.
TakeUnits(p, field, unit) ==
    With(p, LAMBDA q :
    With(IntQuo(q.left, unit), LAMBDA v :
        [left |-> Int64(IntSub(q.left, Int64(IntMul(v, unit)))),
         duration |-> [q.duration EXCEPT ![field] = v]]))

\* func FromDuration(d time.Duration) Duration
FromDuration(d) ==
    With(d, LAMBDA n0 :
    With(FloatToInt64(FloatDiv(FloatOf(n0), nsPerYear)), LAMBDA y :
    With(Int64(IntSub(n0, YearsToNs(y))), LAMBDA n1 :
    With(FloatToInt64(FloatDiv(FloatOf(n1), nsPerMonth)), LAMBDA mo :
    With(Int64(IntSub(n1, MonthsToNs(mo))), LAMBDA n2 :
    With(TakeUnits(TakeUnits(TakeUnits(TakeUnits(
             [left |-> n2,
              duration |-> [WideZero EXCEPT !.year = y, !.month = mo]],
             "week", nsPerWeek), "day", nsPerDay), "hour", nsPerHour),
             "minute", nsPerMinute), LAMBDA p :
        [p.duration EXCEPT
            !.second = FloatToInt64(FloatDiv(FloatOf(p.left),
                                             FloatOf(nsPerSecond)))]))))))

\* func (i Duration) Duration() time.Duration
Duration(i) ==
    With(i, LAMBDA r :
    With(Int64(IntAdd(Int64(IntAdd(Int64(IntAdd(Int64(IntAdd(Int64(IntAdd(
             Int64(IntAdd(Int64(YearsToNs(r.year)),
                          MonthsToNs(r.month))),
                          UnitsToNs(r.week, nsPerWeek))),
                          UnitsToNs(r.day, nsPerDay))),
                          UnitsToNs(r.hour, nsPerHour))),
                          UnitsToNs(r.minute, nsPerMinute))),
                          UnitsToNs(r.second, nsPerSecond))), LAMBDA n7 :
        IF r.hasNegativeSign THEN Int64(IntNeg(n7)) ELSE n7))

\* Apply with the sign applied to the days as well as to the offset.
ApplySignedDays(i) ==
    With(i, LAMBDA r :
    With(Int64(IntAdd(Int64(IntAdd(Int64(IntMul(r.hour, nsPerHour)),
                                   Int64(IntMul(r.minute, nsPerMinute)))),
                      Int64(IntMul(r.second, nsPerSecond)))), LAMBDA d :
    With(Int64(IntAdd(r.day, Int64(IntMul(r.week, IntOf(7))))), LAMBDA n :
        [years |-> r.year, months |-> r.month,
         days |-> IF r.hasNegativeSign THEN Int64(IntNeg(n)) ELSE n,
         offset |-> IF r.hasNegativeSign THEN Int64(IntNeg(d)) ELSE d])))

\* func (i Duration) Apply(t time.Time) time.Time: the time returned is
\* t.AddDate(years, months, days).Add(offset) for these four values (int is
\* int64 on the 64-bit platforms).
Apply(i) ==
    With(i, LAMBDA r :
    With(Int64(IntAdd(Int64(IntAdd(Int64(IntMul(r.hour, nsPerHour)),
                                   Int64(IntMul(r.minute, nsPerMinute)))),
                      Int64(IntMul(r.second, nsPerSecond)))), LAMBDA d :
        [years |-> r.year, months |-> r.month,
         days |-> Int64(IntAdd(r.day, Int64(IntMul(r.week, IntOf(7))))),
         offset |-> IF r.hasNegativeSign THEN Int64(IntNeg(d)) ELSE d]))

\* The component values of the receivers of Duration() and Apply: the
\* values of the repository's tests and their neighbours, and a count of
\* seconds that needs more than 32 bits.
ElapsedReceivers ==
    {WideDuration(sign, IntOf(y), IntOf(mo), IntOf(w), IntOf(d), IntOf(h),
                  IntOf(mi), sec) :
        sign \in BOOLEAN, y \in {0, 3, 6}, mo \in {0, 6, 12}, w \in {0, 1},
        d \in {0, 4}, h \in {0, 12}, mi \in {0, 30},
        sec \in {IntOf(0), IntOf(5), IntAdd(IntMul(IntOf(5), IntOf(10 ^ 9)), IntOf(1))}}

\* Receivers of Apply whose hours or weeks exceed what int64 nanoseconds or
\* int64 days hold: PT3000000H and P2000000000000000000W, which From parses.
FarReceivers ==
    {[WideZero EXCEPT !.hasNegativeSign = sign, !.hour = IntOf(3 * 10 ^ 6)] :
        sign \in BOOLEAN}
    \cup {[WideZero EXCEPT !.week = IntMul(IntOf(2 * 10 ^ 9), IntOf(10 ^ 9)),
                           !.day = IntOf(1)]}

\* The arguments of FromDuration: elapsed times of both signs.
ElapsedValues ==
    LET pos == {IntOf(0), IntOf(1), nsPerSecond, nsPerHour,
                IntAdd(IntMul(IntOf(12), nsPerMinute),
                       IntMul(IntOf(43), nsPerSecond)),
                IntMul(IntOf(400), nsPerDay),
                IntMul(IntOf(220898664), nsPerSecond)}
    IN  pos \cup {IntNeg(x) : x \in pos}

\* ------------------------------------------------------------------ JSON

\* The quotation mark that delimits a JSON string.
Quote == "\""

\* json.Marshal of a Go string whose runes need no escape (a text of
\* String() has none that does): the runes between quotation marks.
jsonMarshalString(str) == <<Quote>> \o str \o <<Quote>>

\* json.Unmarshal(data, &s) for a Go string s that is "": a JSON string
\* without escapes assigns its runes to s, the literal null leaves s as it
\* is, and every other data, valid JSON or not, is an error.
jsonUnmarshalString(data) ==
    IF data = <<"n", "u", "l", "l">> THEN [s |-> <<>>, err |-> NilError]
    ELSE IF /\ Len(data) >= 2
            /\ data[1] = Quote /\ data[Len(data)] = Quote
            /\ \A k \in 2..(Len(data) - 1) : data[k] \notin {Quote, "\\"}
    THEN [s |-> SubSeq(data, 2, Len(data) - 1), err |-> NilError]
    ELSE [s |-> <<>>, err |-> BareError("json")]

\* func (i Duration) MarshalJSON() ([]byte, error): the bytes returned;
\* json.Marshal of a string returns no error.
MarshalJSON(i) == jsonMarshalString(String(i))

\* UnmarshalJSON with the result of From assigned to the receiver before
\* From's error is looked at.
UnmarshalJSONAssignsFirst(i, data) ==
    LET u == jsonUnmarshalString(data)
    IN  IF u.err # NilError THEN [recv |-> i, err |-> u.err]
        ELSE LET r == From(u.s)
             IN  [recv |-> r.duration, err |-> r.ret.err]

\* func (i *Duration) UnmarshalJSON(data []byte) error: the receiver after
\* the call and the error returned.
UnmarshalJSON(i, data) ==
    LET u == jsonUnmarshalString(data)
    IN  IF u.err # NilError THEN [recv |-> i, err |-> u.err]
        ELSE LET r == From(u.s)
             IN  IF r.ret.err # NilError THEN [recv |-> i, err |-> r.ret.err]
                 ELSE [recv |-> r.duration, err |-> NilError]

\* The Duration values marshalled, the receivers of UnmarshalJSON, and the
\* data unmarshalled that no MarshalJSON has written: JSON that is not a
\* string, JSON that is not valid, and strings From accepts and rejects.
JsonComponentValues == {-1, 0, 1, MaxInt64}

JsonDurations ==
    [hasNegativeSign : BOOLEAN, year : JsonComponentValues,
     month : JsonComponentValues, week : JsonComponentValues,
     day : JsonComponentValues, hour : JsonComponentValues,
     minute : JsonComponentValues, second : JsonComponentValues]

JsonReceivers ==
    {ZeroDuration,
     [ZeroDuration EXCEPT !.hasNegativeSign = TRUE, !.year = 1, !.second = 10]}

JsonData ==
    {<<"1">>, <<"n", "u", "l", "l">>, <<"t", "r", "u", "e">>, <<"{", "}">>,
     <<Quote, "P", "1", "D">>, <<"P", "1", "D">>}
    \cup {jsonMarshalString(str) :
            str \in {<<>>, <<"P">>, <<"-">>, <<"P", "1", "D">>,
                     <<"-", "P", "1", "Y", "T", "5", "S">>,
                     <<"P", "1", "Y", "5">>, <<"P", "1", "A">>,
                     <<"P", "T">>, <<"U+00E8">>}}

\* ----------------------------------------------------------------- state

VARIABLES
    op,        \* the call in progress, "idle" before any
    s,         \* From: the runes of the input read so far
    eof,       \* From: the reader has reported io.EOF, s is the whole input
    curState,  \* From: curState
    col,       \* From: col
    numBuf,    \* From: numBuf
    duration,  \* From: duration, which every return of From returns
    ret,       \* From: whether it has returned, and the error returned
    recv,      \* String: the receiver
    text,      \* String: the text returned
    dur,       \* Duration(), Apply: the receiver; FromDuration: the result
    ns,        \* FromDuration: the argument; Duration(): the result
    shift,     \* Apply: what is added to t
    prior,     \* UnmarshalJSON: the receiver before the call
    reads      \* From: the calls of ReadRune made so far

vars ==
    <<op, s, eof, curState, col, numBuf, duration, ret, recv, text, dur, ns,
      shift, prior, reads>>

\* The locals of From as one record, and their assignment.
Locals ==
    [curState |-> curState, col |-> col, numBuf |-> numBuf,
     duration |-> duration, ret |-> ret]

SetLocals(p) ==
    /\ curState' = p.curState
    /\ col' = p.col
    /\ numBuf' = p.numBuf
    /\ duration' = p.duration
    /\ ret' = p.ret

Init ==
    /\ op = "idle"
    /\ s = <<>>
    /\ eof = FALSE
    /\ curState = InitLocals.curState
    /\ col = InitLocals.col
    /\ numBuf = InitLocals.numBuf
    /\ duration = InitLocals.duration
    /\ ret = InitLocals.ret
    /\ recv = ZeroDuration
    /\ text = <<>>
    /\ dur = WideZero
    /\ ns = IntOf(0)
    /\ shift = Apply(WideZero)
    /\ prior = ZeroDuration
    /\ reads = 0

\* From("") : len(s) == 0, return before the loop.
FromEmpty ==
    /\ op = "idle"
    /\ op' = "From"
    /\ eof' = TRUE
    /\ SetLocals(From(<<>>))
    /\ reads' = 0
    /\ UNCHANGED <<s, recv, text, dur, ns, shift, prior>>

\* From(s) for a non-empty s: the locals are set and the loop is entered.
FromCall ==
    /\ op = "idle"
    /\ op' = "From"
    /\ SetLocals(InitLocals)
    /\ reads' = 0
    /\ UNCHANGED <<s, eof, recv, text, dur, ns, shift, prior>>

Reading == op = "From" /\ ~ret.done /\ ~eof

\* An iteration of the loop: ReadRune delivers the next rune, b, and the
\* case of curState handles it. One action for each case of the switch, and
\* one for a rune of more than one byte.
ReadRune(b) ==
    /\ Reading
    /\ Len(s) < MaxLen
    /\ s' = Append(s, b)
    /\ SetLocals(Iteration(Locals, b))
    /\ reads' = reads + 1
    /\ UNCHANGED <<op, eof, recv, text, dur, ns, shift, prior>>

IterNonAscii == Reading /\ \E b \in MultiByteRunes : ReadRune(b)

IterStart == curState = stateStart /\ \E b \in AsciiRunes : ReadRune(b)

IterPDesignator ==
    /\ curState \in {stateP, stateDesignator}
    /\ \E b \in AsciiRunes : ReadRune(b)

IterNumber == curState = stateNumber /\ \E b \in AsciiRunes : ReadRune(b)

IterTTDesignator ==
    /\ curState \in {stateT, stateTDesignator}
    /\ \E b \in AsciiRunes : ReadRune(b)

IterTNumber == curState = stateTNumber /\ \E b \in AsciiRunes : ReadRune(b)

\* The iteration in which ReadRune reports io.EOF; the input is not empty.
IterEOF ==
    /\ Reading
    /\ Len(s) > 0
    /\ eof' = TRUE
    /\ SetLocals(Iteration(Locals, EOF))
    /\ reads' = reads + 1
    /\ UNCHANGED <<op, s, recv, text, dur, ns, shift, prior>>

\* An iteration of the loop on an input with a long run of digits: ReadRune
\* delivers the rune b of an input of at most MaxRun runes.
ReadRuneOfRun(b) ==
    /\ Reading
    /\ Len(s) < MaxRun
    /\ s' = Append(s, b)
    /\ SetLocals(Iteration(Locals, b))
    /\ reads' = reads + 1
    /\ UNCHANGED <<op, eof, recv, text, dur, ns, shift, prior>>

\* The P of the input is read.
RunStart == curState = stateStart /\ ReadRuneOfRun("P")

\* A digit of the run is read: the digits have no limit in number.
RunDigit == curState \in {stateP, stateNumber} /\ ReadRuneOfRun("0")

\* The rune after the run is read, which is no digit and no designator.
RunEnd ==
    /\ curState = stateNumber
    /\ \E b \in {"A", "-"} \cup MultiByteRunes : ReadRuneOfRun(b)

\* i.String() on a Duration value i.
StringCall ==
    /\ op = "idle"
    /\ op' = "String"
    /\ \E i \in DurationValues :
         /\ recv' = i
         /\ text' = String(i)
    /\ UNCHANGED <<s, eof, curState, col, numBuf, duration, ret, dur, ns, shift,
                   prior, reads>>

\* FromDuration(d) on an elapsed time d.
FromDurationCall ==
    /\ op = "idle"
    /\ op' = "FromDuration"
    /\ \E d \in ElapsedValues :
         /\ ns' = d
         /\ dur' = FromDuration(d)
    /\ UNCHANGED <<s, eof, curState, col, numBuf, duration, ret, recv, text,
                   shift, prior, reads>>

\* i.Duration() on a Duration value i.
DurationCall ==
    /\ op = "idle"
    /\ op' = "Duration"
    /\ \E i \in ElapsedReceivers :
         /\ dur' = i
         /\ ns' = Duration(i)
    /\ UNCHANGED <<s, eof, curState, col, numBuf, duration, ret, recv, text,
                   shift, prior, reads>>

\* i.Apply(t) on a Duration value i.
ApplyCall ==
    /\ op = "idle"
    /\ op' = "Apply"
    /\ \E i \in ElapsedReceivers \cup FarReceivers :
         /\ dur' = i
         /\ shift' = Apply(i)
    /\ UNCHANGED <<s, eof, curState, col, numBuf, duration, ret, recv, text,
                   ns, prior, reads>>

\* i.MarshalJSON() on a Duration value i.
MarshalCall ==
    /\ op = "idle"
    /\ op' = "MarshalJSON"
    /\ \E i \in JsonDurations :
         /\ recv' = i
         /\ text' = MarshalJSON(i)
    /\ UNCHANGED <<s, eof, curState, col, numBuf, duration, ret, dur, ns, shift,
                   prior, reads>>

\* The receiver i and the error after i.UnmarshalJSON(data).
Unmarshalled(i, data) ==
    LET u == UnmarshalJSON(i, data)
    IN  /\ prior' = i
        /\ text' = data
        /\ recv' = u.recv
        /\ ret' = [done |-> TRUE, err |-> u.err]

\* i.UnmarshalJSON(data) on the data MarshalJSON has just returned.
UnmarshalMarshalled ==
    /\ op = "MarshalJSON"
    /\ op' = "UnmarshalJSON"
    /\ \E i \in JsonReceivers : Unmarshalled(i, text)
    /\ UNCHANGED <<s, eof, curState, col, numBuf, duration, dur, ns, shift,
                   reads>>

\* i.UnmarshalJSON(data) on any data.
UnmarshalCall ==
    /\ op = "idle"
    /\ op' = "UnmarshalJSON"
    /\ \E i \in JsonReceivers, data \in JsonData : Unmarshalled(i, data)
    /\ UNCHANGED <<s, eof, curState, col, numBuf, duration, dur, ns, shift,
                   reads>>

Next ==
    \/ FromEmpty
    \/ FromCall
    \/ IterNonAscii
    \/ IterStart
    \/ IterPDesignator
    \/ IterNumber
    \/ IterTTDesignator
    \/ IterTNumber
    \/ IterEOF
    \/ StringCall

Spec == Init /\ [][Next]_vars

\* The conversions between a Duration and an elapsed time or a timestamp.
NextElapsed ==
    \/ FromDurationCall
    \/ DurationCall
    \/ ApplyCall

SpecElapsed == Init /\ [][NextElapsed]_vars

\* From on an input with a run of digits of any length up to MaxRun.
NextRun ==
    \/ FromCall
    \/ RunStart
    \/ RunDigit
    \/ RunEnd
    \/ IterEOF

SpecRun == Init /\ [][NextRun]_vars

\* An iteration of From's loop.
Iterate ==
    \/ IterNonAscii
    \/ IterStart
    \/ IterPDesignator
    \/ IterNumber
    \/ IterTTDesignator
    \/ IterTNumber
    \/ IterEOF

\* From alone, on every input of at most MaxLen runes.
NextFrom ==
    \/ FromEmpty
    \/ FromCall
    \/ Iterate

SpecFrom == Init /\ [][NextFrom]_vars

\* SpecFrom with the loop of From going on while From has not returned
\* (ReadRune of a strings.Reader does not block), and the reader, whose input
\* is finite, reporting io.EOF in the end.
SpecFair == SpecFrom /\ WF_vars(Iterate) /\ WF_vars(IterEOF)

\* The JSON encoding of a Duration.
NextJSON ==
    \/ MarshalCall
    \/ UnmarshalMarshalled
    \/ UnmarshalCall

SpecJSON == Init /\ [][NextJSON]_vars

\* ===================================================================
\* The texts of the specification, read without the parser: a text is cut
\* into its signs, the P, and its number-designator pairs, and the
\* grammar's conditions are stated on the pieces.
\* ===================================================================

\* The number a run of decimal digits denotes.
RECURSIVE DecVal(_)
DecVal(run) ==
    IF run = <<>> THEN 0
    ELSE 10 * DecVal(SubSeq(run, 1, Len(run) - 1)) + DigitValue(run[Len(run)])

\* Nothing read yet.
ScanStart ==
    [bad |-> FALSE, signs |-> <<>>, seenP |-> FALSE, inTime |-> FALSE,
     run |-> <<>>, pairs |-> <<>>]

\* The pieces after one more rune c: bad when c cannot continue a text of
\* the shape  sign* P (digits letter)* [T (digits letter)*]  whose letters
\* are among Y, M, W, D before the T and among H, M, S after it.
ScanStep(q, c) ==
    IF q.bad THEN q
    ELSE IF ~q.seenP
    THEN IF c \in {"+", "-"} THEN [q EXCEPT !.signs = Append(q.signs, c)]
         ELSE IF c = "P" THEN [q EXCEPT !.seenP = TRUE]
         ELSE [q EXCEPT !.bad = TRUE]
    ELSE IF c \in AsciiDigits THEN [q EXCEPT !.run = Append(q.run, c)]
    ELSE IF c = "T" /\ q.run = <<>> /\ ~q.inTime THEN [q EXCEPT !.inTime = TRUE]
    ELSE IF /\ q.run # <<>>
            /\ c \in (IF q.inTime THEN {"H", "M", "S"} ELSE {"Y", "M", "W", "D"})
    THEN [q EXCEPT !.pairs = Append(q.pairs, [time |-> q.inTime, des |-> c,
                                              val |-> DecVal(q.run)]),
                   !.run = <<>>]
    ELSE [q EXCEPT !.bad = TRUE]

RECURSIVE ScanFrom(_, _, _)
ScanFrom(q, str, k) ==
    IF k > Len(str) THEN q ELSE ScanFrom(ScanStep(q, str[k]), str, k + 1)

Scan(str) == ScanFrom(ScanStart, str, 1)

\* The place of a designator in the order Y, M, W, D or H, M, S.
Rank(pair) ==
    IF pair.time
    THEN CASE pair.des = "H" -> 1 [] pair.des = "M" -> 2 [] pair.des = "S" -> 3
    ELSE CASE pair.des = "Y" -> 1 [] pair.des = "M" -> 2 [] pair.des = "W" -> 3
           [] pair.des = "D" -> 4

\* The designators of each part are in the grammar's order, none repeated.
Ordered(q) ==
    \A i, j \in 1..Len(q.pairs) :
        (i < j /\ q.pairs[i].time = q.pairs[j].time)
            => Rank(q.pairs[i]) < Rank(q.pairs[j])

\* No designator closes two numbers in the same part.
Distinct(q) ==
    \A i, j \in 1..Len(q.pairs) :
        (i < j /\ q.pairs[i].time = q.pairs[j].time)
            => q.pairs[i].des # q.pairs[j].des

\* Every number, closed or still being read, is at most MaxInt64.
Fits(q) ==
    /\ \A i \in 1..Len(q.pairs) : q.pairs[i].val <= MaxInt64
    /\ DecVal(q.run) <= MaxInt64

Uses(q, time, des) ==
    \E i \in 1..Len(q.pairs) : q.pairs[i].time = time /\ q.pairs[i].des = des

\* The number before a designator, 0 when the text does not use it.
ValueOf(q, time, des) ==
    IF Uses(q, time, des)
    THEN q.pairs[CHOOSE i \in 1..Len(q.pairs) :
                     q.pairs[i].time = time /\ q.pairs[i].des = des].val
    ELSE 0

\* The Duration a text denotes.
Denoted(q) ==
    [hasNegativeSign |-> q.signs = <<"-">>,
     year |-> ValueOf(q, FALSE, "Y"), month |-> ValueOf(q, FALSE, "M"),
     week |-> ValueOf(q, FALSE, "W"), day |-> ValueOf(q, FALSE, "D"),
     hour |-> ValueOf(q, TRUE, "H"), minute |-> ValueOf(q, TRUE, "M"),
     second |-> ValueOf(q, TRUE, "S")]

\* [+-]? 'P' (nY)? (nM)? (nW)? (nD)? ('T' (nH)? (nM)? (nS)?)?
InGrammar(q) ==
    /\ ~q.bad /\ q.seenP /\ q.run = <<>>
    /\ Len(q.signs) <= 1
    /\ Ordered(q)

\* A text of the grammar with at least one pair and every number in range.
InForm(q) == InGrammar(q) /\ Len(q.pairs) >= 1 /\ Fits(q)

\* The text read so far can be continued to a text of InForm: a number
\* being read has a designator left to close it.
Continuable(q) ==
    /\ ~q.bad /\ Len(q.signs) <= 1 /\ Ordered(q) /\ Fits(q)
    /\ q.run # <<>> =>
         \E c \in (IF q.inTime THEN {"H", "M", "S"} ELSE {"Y", "M", "W", "D"}) :
             \A i \in 1..Len(q.pairs) :
                 q.pairs[i].time = q.inTime
                     => Rank(q.pairs[i]) < Rank([time |-> q.inTime, des |-> c])

\* From has returned, with or without an error.
Returned == op = "From" /\ ret.done

Failed == Returned /\ ret.err # NilError

Succeeded == Returned /\ ret.err = NilError

\* The kind of the error returned.
FailedWith(kind) == Failed /\ ret.err.Inner = kind

\* The designators that may close a number before and after the T, and the
\* component each names.
DesignatorsOf(time) == IF time THEN {"H", "M", "S"} ELSE {"Y", "M", "W", "D"}

FieldOf(time, des) ==
    IF time
    THEN CASE des = "H" -> "hour" [] des = "M" -> "minute" [] des = "S" -> "second"
    ELSE CASE des = "Y" -> "year" [] des = "M" -> "month" [] des = "W" -> "week"
           [] des = "D" -> "day"

\* Every component is a magnitude an int64 holds.
Magnitudes(d) ==
    \A f \in {"year", "month", "week", "day", "hour", "minute", "second"} :
        d[f] \in 0..MaxInt64

\* The canonical text of the specification: the sign, P, and every non-zero
\* component in the order Y, M, W, D, T, H, M, S as its decimal digits and
\* its designator; P0D when every component is zero.
RECURSIVE Decimal(_)
Decimal(v) ==
    IF v < 0 THEN <<"-">> \o Decimal(-v)
    ELSE IF v < 10 THEN <<DigitRune(v)>>
    ELSE Decimal(v \div 10) \o <<DigitRune(v % 10)>>

Piece(v, c) == IF v # 0 THEN Decimal(v) \o <<c>> ELSE <<>>

Canonical(d) ==
    (IF d.hasNegativeSign THEN <<"-">> ELSE <<>>) \o <<"P">>
    \o (IF \A f \in {"year", "month", "week", "day", "hour", "minute", "second"} :
               d[f] = 0
        THEN <<"0", "D">>
        ELSE Piece(d.year, "Y") \o Piece(d.month, "M") \o Piece(d.week, "W")
             \o Piece(d.day, "D")
             \o (IF d.hour # 0 \/ d.minute # 0 \/ d.second # 0
                 THEN <<"T">> ELSE <<>>)
             \o Piece(d.hour, "H") \o Piece(d.minute, "M")
             \o Piece(d.second, "S"))

\* ===================================================================
\* The claims
\* ===================================================================

\* C1: round trip. For every Duration d whose seven components are in
\* 0..MaxInt64, with the sign flag set or clear, From(d.String()) returns no
\* error and a Duration equal to d in all eight fields.
C1_RoundTrip ==
    (op = "String" /\ Magnitudes(recv)) =>
        LET r == From(text)
        IN  r.ret.done /\ r.ret.err = NilError /\ r.duration = recv

\* A negative Duration with components of one and two digits, MaxInt64 among
\* them, before and after the T, has been written and parses back to itself.
C1_Witness ==
    /\ op = "String"
    /\ recv = [hasNegativeSign |-> TRUE, year |-> MaxInt64, month |-> 0,
               week |-> 10, day |-> 0, hour |-> 0, minute |-> 1, second |-> 0]
    /\ From(text).duration = recv

\* C2: for every input made of an optional sign, P, and number-designator
\* pairs with distinct designators in the order Y, M, W, D, then optionally T
\* and pairs in the order H, M, S, with at least one pair and every number at
\* most MaxInt64, From succeeds; each component is the decimal value of the
\* digits before its designator (M before T is month, M after T is minute),
\* every other component is 0, and hasNegativeSign holds exactly when the sign
\* is '-'. From raises no error while it reads such an input, and returns the
\* denoted Duration at its end.
C2_FormParses ==
    op = "From" =>
        LET q == Scan(s)
        IN  /\ (~eof /\ Continuable(q)) => ~ret.done
            /\ (eof /\ InForm(q)) => (Succeeded /\ duration = Denoted(q))

\* "-P1MT5M" has been parsed: a month before the T, minutes after it.
C2_Witness ==
    /\ Succeeded /\ eof
    /\ s = <<"-", "P", "1", "M", "T", "5", "M">>
    /\ duration = [ZeroDuration EXCEPT !.hasNegativeSign = TRUE, !.month = 1,
                                       !.minute = 5]

\* C3, as claimed: for every Duration value, those the parser does not
\* produce included, String() returns the canonical text: every non-zero
\* component is written.
C3_StringOfEveryDuration == op = "String" => text = Canonical(recv)

\* C3, amended: for every Duration value whose components are all >= 0,
\* String() returns the canonical text.
C3_StringOfMagnitudes ==
    (op = "String" /\ Magnitudes(recv)) => text = Canonical(recv)

\* The text of a negative Duration with zero and non-zero components before
\* and after the T has been written.
C3_Witness ==
    /\ op = "String"
    /\ recv = [hasNegativeSign |-> TRUE, year |-> 1, month |-> 0, week |-> 10,
               day |-> 0, hour |-> 0, minute |-> MaxInt64, second |-> 1]
    /\ text = Canonical(recv)
    /\ text[1] = "-"

\* C4: duplicate rejection. Whenever the same designator closes a number for
\* the second time in the date part or in the time part, whatever the two
\* numbers (0 included), From fails with DuplicateDesignator.
C4_DuplicateRejected ==
    op = "From" =>
        LET q == Scan(s)
        IN  (~q.bad /\ Fits(q) /\ ~Distinct(q))
                => FailedWith(DuplicateDesignator)

\* C5: overflow boundary. When a valid designator closes a run of digits (of
\* any length, leading zeros allowed), From fails with
\* DesignatorNumberTooLarge if the run's value is above MaxInt64, and
\* otherwise assigns exactly that value to the designator's component (no
\* wrapped value is ever stored), unless the designator is a duplicate.
C5_OverflowBoundary ==
    (op = "From" /\ Len(s) >= 2) =>
        LET before == Scan(SubSeq(s, 1, Len(s) - 1))
            c == s[Len(s)]
            v == DecVal(before.run)
        IN  (/\ ~before.bad /\ before.seenP /\ before.run # <<>>
             /\ c \in DesignatorsOf(before.inTime))
            => IF v > MaxInt64
               THEN FailedWith(DesignatorNumberTooLarge)
               ELSE \/ /\ ret.err = NilError
                       /\ duration[FieldOf(before.inTime, c)] = v
                    \/ /\ FailedWith(DuplicateDesignator)
                       /\ Uses(before, before.inTime, c)

\* A run with a leading zero and the value MaxInt64 + 1 was closed by Y and
\* refused.
C5_Witness ==
    /\ op = "From" /\ Len(s) = 5
    /\ s[1] = "P" /\ s[2] = "0" /\ s[5] = "Y"
    /\ \A k \in 3..4 : s[k] \in AsciiDigits
    /\ DecVal(SubSeq(s, 2, 4)) = MaxInt64 + 1
    /\ FailedWith(DesignatorNumberTooLarge)

\* C6: every error From returns, DesignatorNumberTooLarge included, is a
\* positioned error: it carries the kind and the column.
C6_EveryErrorPositioned ==
    Failed => ret.err.type = "ISO8601DurationError"

\* C7: whenever From returns an error, the Duration returned with it is the
\* zero value.
C7_ZeroDurationOnError == Failed => duration = ZeroDuration

\* C8, as claimed: From("P1A") fails with UnknownDesignator at column 4.
C8_ColumnFour ==
    (Returned /\ s = <<"P", "1", "A">>)
        => ret.err = wrapErr(UnknownDesignator, 4)

\* C8, amended: From("P1A") fails with UnknownDesignator at column 3, the
\* 1-based place of the A.
C8_ColumnThree ==
    (op = "From" /\ s = <<"P", "1", "A">>)
        => (ret.done /\ ret.err = wrapErr(UnknownDesignator, 3))

\* From has read "P1A" and returned.
C8_Witness == Returned /\ s = <<"P", "1", "A">> /\ ~eof /\ col = Len(s)

\* C9: every text From accepts is of the grammar
\* [+-]? 'P' (nY)? (nM)? (nW)? (nD)? ('T' (nH)? (nM)? (nS)?)? : at most one
\* sign, and the designators of each part in order.
C9_AcceptedInGrammar == Succeeded => InGrammar(Scan(s))

\* C10: week coexistence. An input that uses W together with any of Y, M, D,
\* each designator at most once, is accepted, and the Duration holds the week
\* value and the other components together.
C10_WeekCoexists ==
    op = "From" =>
        LET q == Scan(s)
        IN  (/\ ~q.bad /\ q.seenP /\ q.run = <<>> /\ Len(q.signs) <= 1
             /\ Distinct(q) /\ Fits(q)
             /\ Uses(q, FALSE, "W")
             /\ \E c \in {"Y", "M", "D"} : Uses(q, FALSE, c))
            => /\ ret.err = NilError
               /\ eof => ret.done
               /\ duration.week = ValueOf(q, FALSE, "W")
               /\ duration.year = ValueOf(q, FALSE, "Y")
               /\ duration.month = ValueOf(q, FALSE, "M")
               /\ duration.day = ValueOf(q, FALSE, "D")

\* "P1W5D" has been accepted: one week and five days.
C10_Witness ==
    /\ Succeeded
    /\ s = <<"P", "1", "W", "5", "D">>
    /\ duration.week = 1 /\ duration.day = 5

\* C11: the end of the input. The empty text fails with UnexpectedEof at
\* column 0; after at least one rune, the end of the input in stateP fails
\* with UnexpectedEof, in stateNumber or stateTNumber it fails with
\* MissingDesignator, and in every other state From returns no error and the
\* Duration accumulated so far.
C11_EndOfInput ==
    [][(eof' /\ ~eof) =>
         /\ ret'.done
         /\ IF s' = <<>> THEN ret'.err = wrapErr(UnexpectedEof, 0)
            ELSE IF curState = stateP
            THEN /\ ret'.err.type = "ISO8601DurationError"
                 /\ ret'.err.Inner = UnexpectedEof
            ELSE IF curState \in {stateNumber, stateTNumber}
            THEN /\ ret'.err.type = "ISO8601DurationError"
                 /\ ret'.err.Inner = MissingDesignator
            ELSE ret'.err = NilError /\ duration' = duration]_vars

\* The input "P1DT" has ended in stateT after a day was read, and From has
\* returned Duration{day: 1} without an error.
C11_Witness ==
    /\ Succeeded /\ eof
    /\ s = <<"P", "1", "D", "T">>
    /\ duration = [ZeroDuration EXCEPT !.day = 1]

\* C12, as claimed: when the k-th rune is the first of more than one byte and
\* the k-1 runes before it raise no error, From fails with
\* UnexpectedNonAsciiRune and Column = k.
C12_NonAsciiColumn ==
    (op = "From" /\ Len(s) >= 1 /\ s[Len(s)] \in MultiByteRunes)
        => /\ FailedWith(UnexpectedNonAsciiRune)
           /\ ret.err.Column = Len(s)

\* C13, as claimed: the text of an all-zero Duration is the same whether the
\* sign flag is set or clear.
C13_ZeroTextIgnoresSign ==
    (op = "String" /\ [recv EXCEPT !.hasNegativeSign = FALSE] = ZeroDuration)
        => text = String([recv EXCEPT !.hasNegativeSign = ~recv.hasNegativeSign])

\* C13, amended: the text of an all-zero Duration is P0D, after a - when the
\* sign flag is set.
C13_ZeroText ==
    (op = "String" /\ [recv EXCEPT !.hasNegativeSign = FALSE] = ZeroDuration)
        => text = (IF recv.hasNegativeSign THEN <<"-">> ELSE <<>>)
                      \o <<"P", "0", "D">>

\* String has been called on the all-zero Duration with the sign flag set.
C13_Witness ==
    /\ op = "String"
    /\ recv = [ZeroDuration EXCEPT !.hasNegativeSign = TRUE]
    /\ text = <<"-", "P", "0", "D">>

\* The seven components of a Duration.
Components == {"year", "month", "week", "day", "hour", "minute", "second"}

\* week*7*24h + day*24h + hour*1h + minute*1min + second*1s in nanoseconds,
\* as an integer of any size.
FixedLengthNs(d) ==
    IntAdd(IntMul(IntAdd(IntMul(IntAdd(IntMul(d.week, IntOf(7)), d.day),
                                IntOf(24)),
                         d.hour),
                  IntMul(IntOf(3600), IntOf(10 ^ 9))),
           IntAdd(IntMul(d.minute, IntMul(IntOf(60), IntOf(10 ^ 9))),
                  IntMul(d.second, IntOf(10 ^ 9))))

\* hour*1h + minute*1min + second*1s in nanoseconds, as an integer of any
\* size.
OffsetNs(d) ==
    FixedLengthNs([d EXCEPT !.week = IntOf(0), !.day = IntOf(0)])

\* x with the sign of a Duration applied.
Signed(d, x) == IF d.hasNegativeSign THEN IntNeg(x) ELSE x

\* An integer that an int64 holds.
InInt64(x) == Int64(x) = x

\* C14: every Duration that From returns without an error, and every
\* Duration that FromDuration returns, for an elapsed time of either sign,
\* has all seven components >= 0.
C14_ComponentsNonNegative ==
    /\ Succeeded => \A f \in Components : duration[f] >= 0
    /\ op = "FromDuration" => \A f \in Components : ~dur[f].neg

\* C15: for a Duration with year = 0 and month = 0 whose total fits in an
\* int64 of nanoseconds, Duration() is exactly
\* week*7*24h + day*24h + hour*1h + minute*1min + second*1s, negated iff the
\* sign flag is set.
C15_ExactWithoutCalendar ==
    (/\ op = "Duration"
     /\ dur.year = IntOf(0) /\ dur.month = IntOf(0)
     /\ InInt64(FixedLengthNs(dur)))
        => ns = Signed(dur, FixedLengthNs(dur))

\* What C16 says Apply adds to t: year, month and day + 7*week by calendar
\* arithmetic, and then the offset hour*1h + minute*1min + second*1s, added
\* when the sign flag is clear and subtracted when it is set.
ClaimedShift(d) ==
    [years |-> d.year, months |-> d.month,
     days |-> IntAdd(d.day, IntMul(IntOf(7), d.week)),
     offset |-> Signed(d, OffsetNs(d))]

\* C16, as claimed: Apply(t) adds year, month and day + 7*week by calendar
\* arithmetic, and then the offset hour*1h + minute*1min + second*1s, added
\* when the sign flag is clear and subtracted when it is set; the sign
\* touches the offset only. For every Duration.
C16_ApplyShift == op = "Apply" => shift = ClaimedShift(dur)

\* C16, amended: the same, for a Duration with components >= 0 whose
\* day + 7*week fits in an int64 and whose offset fits in an int64 of
\* nanoseconds.
C16_ApplyShiftInRange ==
    (/\ op = "Apply"
     /\ \A f \in Components : ~dur[f].neg
     /\ InInt64(ClaimedShift(dur).days)
     /\ InInt64(OffsetNs(dur)))
        => shift = ClaimedShift(dur)

\* Apply has been called on -P3Y6M1W4DT12H30M5S: 3 years, 6 months and 11
\* days are added, and 12h30m5s subtracted.
C16_Witness ==
    /\ op = "Apply"
    /\ dur = WideDuration(TRUE, IntOf(3), IntOf(6), IntOf(1), IntOf(4),
                          IntOf(12), IntOf(30), IntOf(5))
    /\ shift.days = IntOf(11)
    /\ shift.offset = IntNeg(IntMul(IntOf(12 * 3600 + 30 * 60 + 5), IntOf(10 ^ 9)))

\* C17: for every Duration d with components >= 0 whose Duration() fits in
\* an int64 of nanoseconds, FromDuration(d.Duration()).Duration() equals
\* d.Duration().
C17_ElapsedRoundTrip ==
    (/\ op = "Duration"
     /\ \A f \in Components : ~dur[f].neg
     /\ InInt64(IntAdd(IntAdd(YearsToNs(dur.year), MonthsToNs(dur.month)),
                       FixedLengthNs(dur))))
        => Duration(FromDuration(ns)) = ns

\* C18: From returns an error for every input in which a number-designator
\* pair follows a week value.
C18_NothingAfterWeek ==
    (op = "From" /\ eof) =>
        LET q == Scan(s)
        IN  (/\ ~q.bad /\ q.run = <<>>
             /\ \E i \in 1..(Len(q.pairs) - 1) :
                    ~q.pairs[i].time /\ q.pairs[i].des = "W")
            => Failed

\* C19: From returns an error for every input with more than two digits
\* before a designator.
C19_AtMostTwoDigits ==
    (op = "From" /\ eof) =>
        ((\E k \in 1..(Len(s) - 3) :
             /\ \A j \in k..(k + 2) : s[j] \in AsciiDigits
             /\ s[k + 3] \in defaultDesignators \cup timeDesignators)
            => Failed)

\* C20: when From fails with MissingPDesignatorAtStart, MissingNumber,
\* UnknownDesignator or DuplicateDesignator, on an input of at most 255
\* runes, the error's Column is the 1-based place of the offending rune, which
\* is the last rune read.
C20_ColumnOfOffender ==
    (/\ Len(s) <= Uint8Mod - 1
     /\ \E kind \in {MissingPDesignatorAtStart, MissingNumber,
                     UnknownDesignator, DuplicateDesignator} : FailedWith(kind))
        => /\ ret.err.type = "ISO8601DurationError"
           /\ ret.err.Column = Len(s)

\* "+A" has failed with MissingPDesignatorAtStart at column 2, the place of
\* the A.
C20_Witness ==
    /\ FailedWith(MissingPDesignatorAtStart)
    /\ s = <<"+", "A">>
    /\ ret.err.Column = 2

\* The step of From's loop that has read one more rune; Last is that rune.
ReadStep == op = "From" /\ op' = "From" /\ Len(s') = Len(s) + 1

Last(str) == str[Len(str)]

\* A '-' is among the signs read before the P.
HasMinus(q) == \E i \in 1..Len(q.signs) : q.signs[i] = "-"

\* The sign rules of C21 that do not depend on the kind of the error: in
\* stateStart '-' sets the flag and '+' leaves it, both staying in
\* stateStart; the flag is never cleared, and no step outside stateStart
\* changes it; the Duration returned has the flag exactly when a '-' was
\* read before the P.
SignFlagRules ==
    /\ (ReadStep /\ curState = stateStart /\ Last(s') \in {"+", "-"}) =>
           /\ ~ret'.done /\ curState' = stateStart
           /\ duration'.hasNegativeSign =
                  (Last(s') = "-" \/ duration.hasNegativeSign)
    /\ (op = "From" /\ op' = "From" /\ duration.hasNegativeSign) =>
           duration'.hasNegativeSign
    /\ (op = "From" /\ op' = "From" /\ curState # stateStart) =>
           duration'.hasNegativeSign = duration.hasNegativeSign
    /\ (op' = "From" /\ ret'.done) =>
           duration'.hasNegativeSign = HasMinus(Scan(s'))

\* C21, as claimed: the sign rules, and a sign read after the P is rejected
\* with MissingNumber.
C21_SignMissingNumber ==
    [][/\ SignFlagRules
       /\ (ReadStep /\ curState # stateStart /\ Last(s') \in {"+", "-"}) =>
              (ret'.done /\ ret'.err.Inner = MissingNumber)]_vars

\* C21, amended: the sign rules, and a sign read after the P is rejected:
\* with UnknownDesignator when it follows a digit (stateNumber, stateTNumber),
\* with MissingNumber otherwise.
C21_SignRejected ==
    [][/\ SignFlagRules
       /\ (ReadStep /\ curState # stateStart /\ Last(s') \in {"+", "-"}) =>
              /\ ret'.done
              /\ ret'.err.Inner =
                     IF curState \in {stateNumber, stateTNumber}
                     THEN UnknownDesignator ELSE MissingNumber]_vars

\* "-+P1-": the '+' after the '-' has left the flag set, and the '-' after
\* the digit was rejected with UnknownDesignator.
C21_Witness ==
    /\ FailedWith(UnknownDesignator)
    /\ s = <<"-", "+", "P", "1", "-">>
    /\ duration.hasNegativeSign

\* C22: From returns without an error only after it has read a P: a text
\* of signs alone is never accepted.
C22_SuccessOnlyAfterP == Succeeded => Scan(s).seenP

\* C23: From returns without an error only after it has read at least one
\* number closed by its designator: "PT" is rejected as "P" is.
C23_SuccessOnlyAfterPair ==
    (Succeeded /\ Scan(s).seenP) => Len(Scan(s).pairs) >= 1

\* A run of digits read after the P, before the k-th rune of str, denotes
\* more than MaxInt64.
RunTooLarge(str) ==
    \E k \in 1..Len(str) :
        LET q == Scan(SubSeq(str, 1, k))
        IN  ~q.bad /\ q.seenP /\ DecVal(q.run) > MaxInt64

\* C24, as claimed: once a run of digits denotes more than MaxInt64, From
\* fails with DesignatorNumberTooLarge, whatever follows the run.
C24_OverflowWhateverFollows ==
    (Returned /\ RunTooLarge(s)) => FailedWith(DesignatorNumberTooLarge)

\* C24, amended: a run of digits that denotes more than MaxInt64 raises no
\* error while its digits are read; what ends the run decides the error:
\* DesignatorNumberTooLarge when a designator of the part closes it,
\* UnexpectedNonAsciiRune for a rune of more than one byte, UnknownDesignator
\* for any other rune, MissingDesignator for the end of the input.
C24_OverflowAtDesignator ==
    [][(op = "From" /\ op' = "From" /\ ~ret.done) =>
         LET q == Scan(s)
         IN  (~q.bad /\ q.seenP) =>
               /\ (/\ ReadStep /\ Last(s') \in AsciiDigits
                   /\ DecVal(Append(q.run, Last(s'))) > MaxInt64)
                      => ~ret'.done
               /\ (/\ ReadStep /\ Last(s') \notin AsciiDigits
                   /\ DecVal(q.run) > MaxInt64)
                      => /\ ret'.done
                         /\ ret'.err.Inner =
                              IF Last(s') \in DesignatorsOf(q.inTime)
                              THEN DesignatorNumberTooLarge
                              ELSE IF Last(s') \in MultiByteRunes
                              THEN UnexpectedNonAsciiRune
                              ELSE UnknownDesignator
               /\ (eof' /\ ~eof /\ DecVal(q.run) > MaxInt64)
                      => /\ ret'.done
                         /\ ret'.err.Inner = MissingDesignator]_vars

\* A two-digit run above MaxInt64 was followed by A, and From has failed
\* with UnknownDesignator.
C24_Witness ==
    /\ FailedWith(UnknownDesignator)
    /\ Len(s) = 4 /\ s[1] = "P" /\ s[4] = "A"
    /\ \A k \in 2..3 : s[k] \in AsciiDigits
    /\ DecVal(SubSeq(s, 2, 3)) > MaxInt64

\* The states after the T.
TimeStates == {stateT, stateTNumber, stateTDesignator}

\* C27: once the T is read (the state is stateT, stateTNumber or
\* stateTDesignator), no step changes year, month, week or day, and the
\* state stays among the three or becomes stateFin at the end of the input;
\* a rune read is a digit, or H, M or S closing a number, or From returns an
\* error with it; a second T is refused with MissingNumber or
\* UnknownDesignator.
C27_AfterT ==
    [][(op = "From" /\ op' = "From" /\ curState \in TimeStates) =>
         /\ \A f \in {"year", "month", "week", "day"} :
                duration'[f] = duration[f]
         /\ curState' \in TimeStates \cup {stateFin}
         /\ curState' = stateFin => eof'
         /\ ReadStep =>
              \/ ~ret'.done /\ Last(s') \in AsciiDigits
              \/ /\ ~ret'.done /\ curState = stateTNumber
                 /\ Last(s') \in {"H", "M", "S"}
              \/ ret'.done /\ ret'.err # NilError
         /\ (ReadStep /\ Last(s') = "T") =>
              /\ ret'.done
              /\ ret'.err.Inner \in {MissingNumber, UnknownDesignator}]_vars

\* "P1DT1HT": the second T, read after the hour was closed, was refused
\* with MissingNumber, and the day read before the first T is as it was.
C27_Witness ==
    /\ FailedWith(MissingNumber)
    /\ s = <<"P", "1", "D", "T", "1", "H", "T">>
    /\ duration.day = 1 /\ duration.hour = 1
    /\ curState = stateTDesignator

\* The integer of the model checker that an int64 of one limb is, and the
\* Duration of the parser's width whose components are those of d. The
\* parser's int64 has IntBits bits: InParserRange(d) when it holds every
\* component of d.
Narrow(x) ==
    IF x.mag = <<>> THEN 0 ELSE IF x.neg THEN -x.mag[1] ELSE x.mag[1]

InParserRange(d) ==
    \A f \in Components :
        Len(d[f].mag) <= 1 /\ Narrow(d[f]) \in (-MaxInt64)..MaxInt64

NarrowDuration(d) ==
    [hasNegativeSign |-> d.hasNegativeSign, year |-> Narrow(d.year),
     month |-> Narrow(d.month), week |-> Narrow(d.week),
     day |-> Narrow(d.day), hour |-> Narrow(d.hour),
     minute |-> Narrow(d.minute), second |-> Narrow(d.second)]

\* From returns no error for the text.
Accepts(str) == From(str).ret.err = NilError

\* C25: String() of the Duration From has returned without an error, and of
\* the Duration FromDuration returns for any elapsed time, is a text From
\* accepts.
C25_TextOfResultAccepted ==
    /\ Succeeded => Accepts(String(duration))
    /\ (op = "FromDuration" /\ InParserRange(dur))
           => Accepts(String(NarrowDuration(dur)))

\* The elapsed time between t and t.AddDate(0, 0, days).Add(offset) for a
\* time t in UTC, where every day has 24 hours.
ElapsedOfShift(sh) == IntAdd(IntMul(sh.days, nsPerDay), sh.offset)

\* C26: for a Duration with year = 0 and month = 0, of either sign, whose
\* total fits in an int64 of nanoseconds, and a time t in UTC, Apply(t) is t
\* advanced by Duration(); when the sign flag is set, Apply(t) is not later
\* than t.
C26_ApplyAdvancesByDuration ==
    (/\ op = "Apply"
     /\ dur.year = IntOf(0) /\ dur.month = IntOf(0)
     /\ InInt64(FixedLengthNs(dur)))
        => /\ ElapsedOfShift(shift) = Duration(dur)
           /\ dur.hasNegativeSign =>
                  (ElapsedOfShift(shift).neg \/ ElapsedOfShift(shift) = IntOf(0))

\* The data is a JSON string (without escapes), and the text it encodes.
IsJsonString(data) ==
    /\ Len(data) >= 2
    /\ data[1] = Quote /\ data[Len(data)] = Quote
    /\ \A k \in 2..(Len(data) - 1) : data[k] # Quote

JsonText(data) == SubSeq(data, 2, Len(data) - 1)

\* C28: UnmarshalJSON returns an error for data that is not a JSON string
\* and for a string From rejects, and leaves the receiver as it was whenever
\* it returns an error; otherwise the receiver is the Duration From returns
\* for the string. Unmarshalling MarshalJSON(d) of a Duration d with
\* components >= 0 returns no error and makes the receiver d.
C28_UnmarshalJSON ==
    [][op' = "UnmarshalJSON" =>
         /\ IF IsJsonString(text') /\ Accepts(JsonText(text'))
            THEN /\ ret'.err = NilError
                 /\ recv' = From(JsonText(text')).duration
            ELSE ret'.err # NilError /\ recv' = prior'
         /\ (op = "MarshalJSON" /\ Magnitudes(recv)) =>
                (ret'.err = NilError /\ recv' = recv)]_vars

\* "P1Y5" was unmarshalled into a receiver that held -P1YT10S: From read the
\* year before it failed, and the receiver is as it was.
C28_Witness ==
    /\ op = "UnmarshalJSON"
    /\ text = <<Quote, "P", "1", "Y", "5", Quote>>
    /\ ret.err = wrapErr(MissingDesignator, 4)
    /\ prior = [ZeroDuration EXCEPT !.hasNegativeSign = TRUE, !.year = 1,
                                    !.second = 10]
    /\ recv = prior

\* MarshalJSON(d) of a d with components >= 0 was unmarshalled into a
\* receiver that held another value, and the receiver is d.
C28_RoundTripWitness ==
    /\ op = "UnmarshalJSON"
    /\ text = <<Quote, "-", "P", "1", "M", "T", "1", "S", Quote>>
    /\ prior # ZeroDuration
    /\ recv = [ZeroDuration EXCEPT !.hasNegativeSign = TRUE, !.month = 1,
                                   !.second = 1]

\* C29: the column does not wrap. When From fails with
\* MissingPDesignatorAtStart, MissingNumber, UnknownDesignator or
\* DuplicateDesignator at a rune whose 1-based place is above 255, the error's
\* Column is that place.
C29_ColumnDoesNotWrap ==
    (/\ Len(s) > Uint8Mod - 1
     /\ \E kind \in {MissingPDesignatorAtStart, MissingNumber,
                     UnknownDesignator, DuplicateDesignator} : FailedWith(kind))
        => ret.err.Column = Len(s)

\* C30: From terminates on every finite input. Every iteration of the loop
\* reads once, the rune after those read before or the end of the input, so
\* that the reads made are the runes read and at most one end of input; once
\* the end of the input is read From has returned; and From, once called,
\* returns.
C30_Terminates ==
    /\ [](op = "From" =>
            /\ reads = Len(s) + (IF eof /\ Len(s) > 0 THEN 1 ELSE 0)
            /\ eof => ret.done)
    /\ [][(op = "From" /\ op' = "From") =>
            /\ ~ret.done /\ ~eof
            /\ reads' = reads + 1
            /\ \/ eof' /\ s' = s
               \/ ~eof' /\ Len(s') = Len(s) + 1 /\ SubSeq(s', 1, Len(s)) = s]_vars
    /\ (op = "From") ~> (ret.done /\ reads <= Len(s) + 1)

\* "-P1YT5S" was read to its end in eight reads, and From has returned.
C30_Witness ==
    /\ Succeeded /\ eof
    /\ s = <<"-", "P", "1", "Y", "T", "5", "S">>
    /\ reads = 8

====
